---- MODULE Spec2Model ----
(***************************************************************************)
(* Model of the NoteSage indexer and similarity ranker.                    *)
(*                                                                         *)
(* The store is the SQLite database of databaseMethods.ts (tables page,    *)
(* page_section, tag, page_tag) opened through better-sqlite3, which       *)
(* enforces foreign keys.  An indexing pass is one call of                 *)
(* processNoteFiles; it is an async function, so one step of the model is  *)
(* the code between two awaits, and several passes started by the          *)
(* directory watcher interleave at those points.  uuidv4() is modelled by  *)
(* identifiers built from the pass number and the position of the item,    *)
(* which are unique in the same way.                                       *)
(*                                                                         *)
(* The context functions of chatMethods.ts (getPageSectionContext,         *)
(* getChatContext as sendUserQuery calls it) and the segmenter getSections *)
(* of markdownMethods.ts are explored in specifications of their own       *)
(* (SpecCtx, SpecChat, SpecSeg) over bounded inputs.                       *)
(***************************************************************************)
EXTENDS Integers, Sequences, FiniteSets, TLC

\* ------------------------------------------------------------------ bounds
MaxChanges == 1     \* change notifications of the watcher (each one starts a pass)
MaxFaults == 1      \* store inserts that fail for a reason outside the schema
MaxRestarts == 1    \* times the application is closed and started again
MaxVecLen == 2      \* length of the vectors given to getSimilarity

\* --------------------------------------------------------------- the inputs
\* readdir order of the notes directory
Paths == <<"a.md", "b.md">>
PathSet == {Paths[k] : k \in 1..Len(Paths)}
NoFile == "absent"
\* the versions a note file can have: front-matter tags and markdown body
Versions == {"v1", "v2"}
TagNames == {"x", "y"}

\* gray-matter: the body of the file without its front matter
content(v) == IF v = "v1" THEN "b1" ELSE "b2"

\* front-matter tags of the file ([] when there are none)
metadata(v) == IF v = "v1" THEN <<"x">> ELSE <<"x", "y">>

\* sha256 of the body: equal bodies give equal checksums, different bodies
\* different ones
createHash(body) == <<"sha256", body>>

\* the sections processMarkdown cuts the body into
processMarkdown(body) ==
  [checksum |-> createHash(body),
   sections |-> IF body = "b1" THEN <<"b1#1", "b1#2">> ELSE <<"b2#1">>]

\* components of the vectors
Components == {0 - 1, 0, 1, 2}
Vectors == UNION {[1..n -> Components] : n \in 0..MaxVecLen}

\* the notes directory when the application starts
InitialFiles == [PathSet -> Versions \cup {NoFile}]

\* the calls of processNoteFiles that can be in progress together
PassIds == {1, 2}

VARIABLES
  fs,              \* the notes directory: path -> version or NoFile
  page,            \* table page
  page_section,    \* table page_section
  tag,             \* table tag
  page_tag,        \* table page_tag
  pc,              \* position of each pass
  filePaths,       \* getAllNoteFilePaths result of each pass
  fileObjects,     \* the file objects each pass has read so far
  allPageData,     \* the page data each pass has built so far
  idx,             \* loop index of each pass (document)
  sub,             \* inner loop index of each pass (section, tag, page tag)
  unchangedCount,
  changedCount,
  modifiedPages,
  errs,            \* errors logged by errorHandlerWrapper in each pass
  faults,          \* store failures so far
  run,             \* which call of processNoteFiles each pass is (0: none yet)
  changes,         \* change notifications so far
  restarts,        \* times the application has been started again
  storeFails,      \* whether the store can fail in this run
  hist,            \* per pass: what happened (history, read by the properties only)
  vectorA,         \* arguments and outcome of the last getSimilarity call
  vectorB,
  simResult,
  pageSections,    \* rows of page_section read by getPageSectionContext
  userEmbedding,   \* the query vector handed to the context functions
  pageSectionContext, \* outcome of getPageSectionContext
  message,         \* table message of the active chat, in created_at order
  userMessage,     \* sendUserQuery: the message addUserMessage returned
  chatContext,     \* sendUserQuery: outcome of getChatContext
  chatPc,          \* position of sendUserQuery
  chat,            \* the row of the active chat in table chat: title and description
  hasPreviousMessages, \* sendUserQuery: what isChatHistoryAvailable handed back
  moderationResponse,  \* sendUserQuery: what moderateUserMessage returned
  aiMessage,       \* sendUserQuery: the message addAiMessage returned
  aiCalls,         \* calls of the completion provider (history, read by the properties only)
  embeddingUpdates, \* calls of updateMessageEmbedding (history, read by the properties only)
  mdTree,          \* getSections: top-level nodes of the document
  sectionTrees,    \* getSections: the runs splitTreeBy returned
  treeIdx,         \* getSections: runs mapped so far
  pastParentHeaderNodes, \* getSections: the stack of earlier leading nodes
  sections,        \* getSections: what the map callback returned for each run
  filteredSections, \* getSections: the sections it returns
  segPc,           \* position of getSections
  prefixes         \* per run: the nodes put in front of it (history, read by the properties only)

dbvars == <<page, page_section, tag, page_tag>>
passvars == <<pc, filePaths, fileObjects, allPageData, idx, sub, unchangedCount, changedCount,
              modifiedPages, errs, faults, storeFails, run, changes, restarts, restarts, hist>>
simvars == <<vectorA, vectorB, simResult>>
ctxvars == <<pageSections, userEmbedding, pageSectionContext>>
chatvars == <<message, userMessage, chatContext, chatPc, chat, hasPreviousMessages,
              moderationResponse, aiMessage, aiCalls, embeddingUpdates>>
segvars == <<mdTree, sectionTrees, treeIdx, pastParentHeaderNodes, sections, filteredSections,
             segPc, prefixes>>
vars == <<fs, dbvars, passvars, simvars, ctxvars, chatvars, segvars>>

\* ---------------------------------------------------------- getSimilarity
NotCalled == [called |-> FALSE, threw |-> FALSE, value |-> 0]

\* the loop of dotProduct from index i on (the source counts from 0): the
\* lengths are compared inside the loop body, before the product is added
\* variant: the product takes both factors from the first vector
RECURSIVE dotProduct_first(_, _, _, _)
dotProduct_first(a, b, i, result) ==
  IF i > Len(a)
    THEN [called |-> TRUE, threw |-> FALSE, value |-> result]
    ELSE IF Len(a) # Len(b)
      THEN [called |-> TRUE, threw |-> TRUE, value |-> 0]
      ELSE dotProduct_first(a, b, i + 1, result + a[i] * a[i])

RECURSIVE dotProduct(_, _, _, _)
dotProduct(a, b, i, result) ==
  IF i > Len(a)
    THEN [called |-> TRUE, threw |-> FALSE, value |-> result]
    ELSE IF Len(a) # Len(b)
      THEN [called |-> TRUE, threw |-> TRUE, value |-> 0]
      ELSE dotProduct(a, b, i + 1, result + a[i] * b[i])

getSimilarity(a, b) == dotProduct(a, b, 1, 0)

\* nothing is asked of the chat, of the context functions or of the
\* segmenter while the indexer and getSimilarity are explored on their own
NotReturned == [returned |-> FALSE, threw |-> FALSE, value |-> <<>>]
NoContextCall == pageSections = <<>> /\ userEmbedding = <<>> /\ pageSectionContext = NotReturned
\* createChat: the row of a chat that has just been created
NewChat == [title |-> "New Chat", description |-> ""]
NotAsked == [promise |-> FALSE, value |-> FALSE]
NoChat ==
  /\ message = <<>> /\ userMessage = <<>> /\ chatContext = NotReturned /\ chatPc = "idle"
  /\ chat = NewChat /\ hasPreviousMessages = NotAsked /\ moderationResponse = ""
  /\ aiMessage = <<>> /\ aiCalls = 0 /\ embeddingUpdates = <<>>
NoDocument ==
  /\ mdTree = <<>> /\ sectionTrees = <<>> /\ treeIdx = 0
  /\ pastParentHeaderNodes = <<>> /\ sections = <<>> /\ filteredSections = <<>>
  /\ segPc = "idle" /\ prefixes = <<>>

\* ------------------------------------------------------------ the store
\* variant: the lookup finds nothing
doesPageExist_never(pagePath) == FALSE

\* SELECT * FROM page WHERE page_path = ?  (a row or nothing)
doesPageExist(pagePath) == \E r \in page : r.page_path = pagePath

\* SELECT * FROM page WHERE page_path = ? AND checksum = ?  (a row or nothing)
isPageModified(pagePath, checksum) ==
  \E r \in page : r.page_path = pagePath /\ r.checksum = checksum

\* DELETE FROM page WHERE page_path = ?, with the ON DELETE CASCADE of
\* page_section.page_id and page_tag.page_id; nothing refers to tag from page
removedIds(pagePath) == {r.id : r \in {x \in page : x.page_path = pagePath}}

removePage_page(pagePath) == {r \in page : r.page_path # pagePath}

removePage_section(pagePath) ==
  {s \in page_section : s.page_id \notin removedIds(pagePath)}

\* variant: page_tag.page_id without ON DELETE CASCADE
removePage_page_tag_kept(pagePath) == page_tag

removePage_page_tag(pagePath) ==
  {t \in page_tag : t.page_id \notin removedIds(pagePath)}

\* INSERT INTO page: PRIMARY KEY(id), UNIQUE(checksum, page_path)
addPageAccepted(row) ==
  /\ \A r \in page : r.id # row.id
  /\ \A r \in page : ~(r.checksum = row.checksum /\ r.page_path = row.page_path)

\* INSERT INTO page_section: PRIMARY KEY(id), FOREIGN KEY(page_id) -> page(id)
addPageSectionAccepted(row) ==
  /\ \A r \in page_section : r.id # row.id
  /\ \E r \in page : r.id = row.page_id

\* INSERT OR IGNORE INTO tag: PRIMARY KEY(id), name UNIQUE; a conflict is ignored
addTagIgnored(row) == \E r \in tag : r.id = row.id \/ r.name = row.name

\* INSERT OR IGNORE INTO page_tag: a conflict on PRIMARY KEY(id) or
\* UNIQUE(page_id, tag_id) is ignored
addPageTagIgnored(row) ==
  \E r \in page_tag : r.id = row.id \/ (r.page_id = row.page_id /\ r.tag_id = row.tag_id)

\* ... but OR IGNORE does not cover the foreign keys page_id -> page(id) and
\* tag_id -> tag(id): a missing parent row makes the statement throw
\* variant: the foreign keys of page_tag are not enforced
addPageTagForeignKeys_off(row) == TRUE

addPageTagForeignKeys(row) ==
  /\ \E r \in page : r.id = row.page_id
  /\ \E r \in tag : r.id = row.tag_id

\* ------------------------------------------- processFilesAndGenerateEmbeddings
\* the PageData built for the i-th file object of call r; every id is a fresh uuid
PageData(r, i, fileObject) ==
  LET md == processMarkdown(fileObject.content)
      parentPage == [id |-> <<r, i>>, page_path |-> fileObject.path,
                     checksum |-> md.checksum]
  IN [page |-> parentPage,
      pageSections |-> [k \in 1..Len(md.sections) |->
                          [id |-> <<r, i, k>>, page_id |-> parentPage.id,
                           content |-> md.sections[k]]],
      tags |-> [k \in 1..Len(fileObject.tags) |->
                  [id |-> <<r, i, k>>, name |-> fileObject.tags[k]]],
      pageTags |-> [k \in 1..Len(fileObject.tags) |->
                      [id |-> <<r, i, k>>, tag_id |-> <<r, i, k>>,
                       page_id |-> parentPage.id]]]

\* ----------------------------------------------------------------- passes
Active(p) == pc[p] \notin {"idle", "done", "failed"}

NoHist == [solo |-> TRUE, faulty |-> FALSE, wrote |-> FALSE, stale |-> {},
           skipped |-> {}, embedFail |-> 0, removed |-> {}, interrupted |-> {}]

InitStore ==
  /\ page = {} /\ page_section = {} /\ tag = {} /\ page_tag = {}
  /\ filePaths = [p \in PassIds |-> <<>>]
  /\ fileObjects = [p \in PassIds |-> <<>>]
  /\ allPageData = [p \in PassIds |-> <<>>]
  /\ idx = [p \in PassIds |-> 0]
  /\ sub = [p \in PassIds |-> 0]
  /\ unchangedCount = [p \in PassIds |-> 0]
  /\ changedCount = [p \in PassIds |-> 0]
  /\ modifiedPages = [p \in PassIds |-> <<>>]
  /\ errs = [p \in PassIds |-> 0]
  /\ faults = 0
  /\ changes = 0
  /\ restarts = 0
  /\ run = [p \in PassIds |-> IF p = 1 THEN 1 ELSE 0]
  /\ hist = [p \in PassIds |-> NoHist]

\* app.whenReady: the tables are created, processNoteFiles() is called and
\* the watcher is installed
Init ==
  /\ InitStore
  /\ storeFails = FALSE
  /\ fs \in InitialFiles
  /\ pc = [p \in PassIds |-> IF p = 1 THEN "list" ELSE "idle"]
  /\ vectorA = <<>> /\ vectorB = <<>> /\ simResult = NotCalled
  /\ NoContextCall /\ NoChat /\ NoDocument

\* fs.watch callback: a file was written (possibly with the same content),
\* created or deleted, and processNoteFiles() is called without being awaited.
\* The new call takes a pass that is not in progress, the one that has been
\* free for longest
watchNotesDirectoryForChanges(path, v) ==
  /\ ~(fs[path] = NoFile /\ v = NoFile)
  /\ changes < MaxChanges
  /\ storeFails => \A o \in PassIds : ~Active(o)
  /\ \E q \in PassIds :
       /\ ~Active(q)
       /\ \A o \in PassIds : ~Active(o) => run[q] <= run[o]
       /\ pc' = [pc EXCEPT ![q] = "list"]
       /\ run' = [run EXCEPT ![q] = changes + 2]
       /\ hist' = [r \in PassIds |->
                     IF r = q
                       THEN [NoHist EXCEPT !.solo = \A o \in PassIds : ~Active(o)]
                       ELSE IF Active(r) THEN [hist[r] EXCEPT !.solo = FALSE]
                       ELSE hist[r]]
       /\ filePaths' = [filePaths EXCEPT ![q] = <<>>]
       /\ fileObjects' = [fileObjects EXCEPT ![q] = <<>>]
       /\ allPageData' = [allPageData EXCEPT ![q] = <<>>]
       /\ idx' = [idx EXCEPT ![q] = 0]
       /\ sub' = [sub EXCEPT ![q] = 0]
       /\ unchangedCount' = [unchangedCount EXCEPT ![q] = 0]
       /\ changedCount' = [changedCount EXCEPT ![q] = 0]
       /\ modifiedPages' = [modifiedPages EXCEPT ![q] = <<>>]
       /\ errs' = [errs EXCEPT ![q] = 0]
  /\ changes' = changes + 1
  /\ fs' = [fs EXCEPT ![path] = v]
  /\ UNCHANGED <<dbvars, faults, storeFails, restarts, simvars, ctxvars, chatvars, segvars>>

\* getAllNoteFilePaths: readdir of the notes directory
getAllNoteFilePaths(p) ==
  /\ pc[p] = "list"
  /\ filePaths' = [filePaths EXCEPT ![p] = SelectSeq(Paths, LAMBDA x : fs[x] # NoFile)]
  /\ pc' = [pc EXCEPT ![p] = IF filePaths'[p] = <<>> THEN "done" ELSE "read"]
  /\ idx' = [idx EXCEPT ![p] = 1]
  /\ UNCHANGED <<fs, dbvars, fileObjects, allPageData, sub, unchangedCount,
                 changedCount, modifiedPages, errs, faults, storeFails, run, changes, restarts, hist, simvars, ctxvars, chatvars, segvars>>

\* getAllNoteFileObjects, one iteration: parseFile and date of filePaths[idx];
\* readFile rejects when the file has been deleted since the listing
getAllNoteFileObjects(p) ==
  /\ pc[p] = "read"
  /\ LET filePath == filePaths[p][idx[p]]
         last == idx[p] = Len(filePaths[p])
     IN IF fs[filePath] = NoFile
          THEN /\ pc' = [pc EXCEPT ![p] = "failed"]
               /\ UNCHANGED <<fileObjects, idx>>
          ELSE /\ fileObjects' = [fileObjects EXCEPT ![p] =
                     Append(@, [path |-> filePath, content |-> content(fs[filePath]),
                                tags |-> metadata(fs[filePath])])]
               /\ idx' = [idx EXCEPT ![p] = IF last THEN 1 ELSE @ + 1]
               /\ pc' = [pc EXCEPT ![p] = IF last THEN "embed" ELSE "read"]
  /\ UNCHANGED <<fs, dbvars, filePaths, allPageData, sub, unchangedCount,
                 changedCount, modifiedPages, errs, faults, storeFails, run, changes, restarts, hist, simvars, ctxvars, chatvars, segvars>>

\* processFilesAndGenerateEmbeddings, the loop over the file objects:
\* processMarkdown and the embeddings of the sections of each page.  It touches
\* nothing but its own locals, so the loop is one step.  failAt = k > 0:
\* generateEmbeddingFromText throws on page k, which rejects the whole call
\* (nothing catches it); failAt = 0: every page is built
processFilesAndGenerateEmbeddings(p, failAt) ==
  /\ pc[p] = "embed"
  /\ failAt <= Len(fileObjects[p])
  /\ IF failAt = 0
       THEN /\ allPageData' = [allPageData EXCEPT ![p] =
                  [i \in 1..Len(fileObjects[p]) |-> PageData(run[p], i, fileObjects[p][i])]]
            /\ idx' = [idx EXCEPT ![p] = 1]
            /\ pc' = [pc EXCEPT ![p] = "exists"]
            /\ UNCHANGED hist
       ELSE /\ allPageData' = [allPageData EXCEPT ![p] =
                  [i \in 1..(failAt - 1) |-> PageData(run[p], i, fileObjects[p][i])]]
            /\ idx' = [idx EXCEPT ![p] = failAt]
            /\ pc' = [pc EXCEPT ![p] = "failed"]
            /\ hist' = [hist EXCEPT ![p].embedFail = failAt]
  /\ UNCHANGED <<fs, dbvars, filePaths, fileObjects, sub, unchangedCount,
                 changedCount, modifiedPages, errs, faults, storeFails, run, changes, restarts, simvars, ctxvars, chatvars, segvars>>

\* ------------------------------------------------------- processNoteFiles
collected == <<filePaths, fileObjects, allPageData>>

pageData(p) == allPageData[p][idx[p]]

\* the loop goes to the next pageData, or the pass ends with its console.log
nextPageData(p) ==
  /\ idx' = [idx EXCEPT ![p] = IF @ = Len(allPageData[p]) THEN @ ELSE @ + 1]
  /\ pc' = [pc EXCEPT ![p] = IF idx[p] = Len(allPageData[p]) THEN "done" ELSE "exists"]
  /\ sub' = [sub EXCEPT ![p] = 0]

\* the statement that follows the inserts of one kind
stageAfter(st, pd) ==
  CASE st = "addPage" ->
         IF Len(pd.pageSections) > 0 THEN "addPageSection"
         ELSE IF Len(pd.tags) > 0 THEN "addTag"
         ELSE IF Len(pd.pageTags) > 0 THEN "addPageTag" ELSE "counted"
    [] st = "addPageSection" ->
         IF Len(pd.tags) > 0 THEN "addTag"
         ELSE IF Len(pd.pageTags) > 0 THEN "addPageTag" ELSE "counted"
    [] st = "addTag" -> IF Len(pd.pageTags) > 0 THEN "addPageTag" ELSE "counted"
    [] OTHER -> "counted"

\* after the insert number sub[p] of n inserts of kind st: the next insert of
\* the same loop, the next loop, or changedCount += 1, modifiedPages.push and
\* the next pageData
afterInsert(p, st, n) ==
  IF sub[p] < n
    THEN /\ sub' = [sub EXCEPT ![p] = @ + 1]
         /\ UNCHANGED <<pc, idx, changedCount, modifiedPages>>
    ELSE IF stageAfter(st, pageData(p)) = "counted"
      THEN /\ changedCount' = [changedCount EXCEPT ![p] = @ + 1]
           /\ modifiedPages' = [modifiedPages EXCEPT ![p] = Append(@, pageData(p).page.page_path)]
           /\ nextPageData(p)
      ELSE /\ pc' = [pc EXCEPT ![p] = stageAfter(st, pageData(p))]
           /\ sub' = [sub EXCEPT ![p] = 1]
           /\ UNCHANGED <<idx, changedCount, modifiedPages>>

\* variant: a failure of the store is not logged
errorHandlerWrapper_silent(p, accepted, fault) ==
  /\ fault => storeFails /\ faults < MaxFaults
  /\ faults' = IF fault THEN faults + 1 ELSE faults
  /\ errs' = [errs EXCEPT ![p] = IF ~accepted /\ ~fault THEN @ + 1 ELSE @]

\* errorHandlerWrapper: the statement runs, or it throws, the error is logged
\* and nothing is written.  A statement throws when the schema rejects it
\* (accepted = FALSE) or when the store fails (fault)
errorHandlerWrapper(p, accepted, fault) ==
  /\ fault => storeFails /\ faults < MaxFaults
  /\ faults' = IF fault THEN faults + 1 ELSE faults
  /\ errs' = [errs EXCEPT ![p] = IF fault \/ ~accepted THEN @ + 1 ELSE @]

\* what the doesPageExist step of pass p records about its document
sawPage(p) ==
  LET pagePath == pageData(p).page.page_path
      checksum == pageData(p).page.checksum
      rows == {r \in page : r.page_path = pagePath}
  IN [hist[p] EXCEPT
        !.stale = IF rows # {} /\ \A r \in rows : r.checksum # checksum
                    THEN @ \cup {pagePath} ELSE @]

\* variant: a stored page is skipped only when its checksum is the file's
processNoteFiles_exists_checksum(p) ==
  /\ pc[p] = "exists"
  /\ LET pagePath == pageData(p).page.page_path
         checksum == pageData(p).page.checksum
     IN IF \E r \in page : r.page_path = pagePath /\ r.checksum = checksum
          THEN /\ unchangedCount' = [unchangedCount EXCEPT ![p] = @ + 1]
               /\ nextPageData(p)
               /\ hist' = [hist EXCEPT ![p] = [sawPage(p) EXCEPT !.skipped = @ \cup {pagePath}]]
          ELSE /\ pc' = [pc EXCEPT ![p] = "modified"]
               /\ hist' = [hist EXCEPT ![p] = sawPage(p)]
               /\ UNCHANGED <<unchangedCount, idx, sub>>
  /\ UNCHANGED <<fs, dbvars, collected, changedCount, modifiedPages, errs, faults, storeFails, run, changes, restarts, simvars, ctxvars, chatvars, segvars>>

\* const pageExists = await doesPageExist(pagePath); if (pageExists) {...; continue}
processNoteFiles_exists(p) ==
  /\ pc[p] = "exists"
  /\ LET pagePath == pageData(p).page.page_path
     IN IF doesPageExist(pagePath)
          THEN /\ unchangedCount' = [unchangedCount EXCEPT ![p] = @ + 1]
               /\ nextPageData(p)
               /\ hist' = [hist EXCEPT ![p] = [sawPage(p) EXCEPT !.skipped = @ \cup {pagePath}]]
          ELSE /\ pc' = [pc EXCEPT ![p] = "modified"]
               /\ hist' = [hist EXCEPT ![p] = sawPage(p)]
               /\ UNCHANGED <<unchangedCount, idx, sub>>
  /\ UNCHANGED <<fs, dbvars, collected, changedCount, modifiedPages, errs, faults, storeFails, run, changes, restarts, simvars, ctxvars, chatvars, segvars>>

\* const pageModified = await isPageModified(pagePath, checksum)
processNoteFiles_modified(p) ==
  /\ pc[p] = "modified"
  /\ pc' = [pc EXCEPT ![p] =
       IF isPageModified(pageData(p).page.page_path, pageData(p).page.checksum)
         THEN "removePage" ELSE "addPage"]
  /\ UNCHANGED <<fs, dbvars, collected, idx, sub, unchangedCount, changedCount,
                 modifiedPages, errs, faults, storeFails, run, changes, restarts, hist, simvars, ctxvars, chatvars, segvars>>

\* await removePage(pagePath)
removePage(p) ==
  /\ pc[p] = "removePage"
  /\ LET pagePath == pageData(p).page.page_path
     IN /\ page' = removePage_page(pagePath)
        /\ page_section' = removePage_section(pagePath)
        /\ page_tag' = removePage_page_tag(pagePath)
  /\ tag' = tag
  /\ pc' = [pc EXCEPT ![p] = "addPage"]
  /\ hist' = [hist EXCEPT ![p].wrote = @ \/ page' # page,
                          ![p].removed = removedIds(pageData(p).page.page_path)]
  /\ UNCHANGED <<fs, collected, idx, sub, unchangedCount, changedCount,
                 modifiedPages, errs, faults, storeFails, run, changes, restarts, simvars, ctxvars, chatvars, segvars>>

\* await addPage(pageData.page)
addPage(p, fault) ==
  /\ pc[p] = "addPage"
  /\ LET row == pageData(p).page
         ok == addPageAccepted(row) /\ ~fault
     IN /\ errorHandlerWrapper(p, addPageAccepted(row), fault)
        /\ page' = IF ok THEN page \cup {row} ELSE page
        /\ hist' = [hist EXCEPT ![p].wrote = @ \/ ok, ![p].faulty = @ \/ fault]
  /\ IF stageAfter("addPage", pageData(p)) = "counted"
       THEN /\ changedCount' = [changedCount EXCEPT ![p] = @ + 1]
            /\ modifiedPages' = [modifiedPages EXCEPT ![p] = Append(@, pageData(p).page.page_path)]
            /\ nextPageData(p)
       ELSE /\ pc' = [pc EXCEPT ![p] = stageAfter("addPage", pageData(p))]
            /\ sub' = [sub EXCEPT ![p] = 1]
            /\ UNCHANGED <<idx, changedCount, modifiedPages>>
  /\ UNCHANGED <<fs, page_section, tag, page_tag, collected, unchangedCount, storeFails, run, changes, restarts, simvars, ctxvars, chatvars, segvars>>

\* for (const pageSection of pageData.pageSections) await addPageSection(pageSection)
addPageSection(p, fault) ==
  /\ pc[p] = "addPageSection"
  /\ LET row == pageData(p).pageSections[sub[p]]
         ok == addPageSectionAccepted(row) /\ ~fault
     IN /\ errorHandlerWrapper(p, addPageSectionAccepted(row), fault)
        /\ page_section' = IF ok THEN page_section \cup {row} ELSE page_section
        /\ hist' = [hist EXCEPT ![p].wrote = @ \/ ok, ![p].faulty = @ \/ fault]
  /\ afterInsert(p, "addPageSection", Len(pageData(p).pageSections))
  /\ UNCHANGED <<fs, page, tag, page_tag, collected, unchangedCount, storeFails, run, changes, restarts, simvars, ctxvars, chatvars, segvars>>

\* for (const tag of pageData.tags) await addTag(tag)
addTag(p, fault) ==
  /\ pc[p] = "addTag"
  /\ LET row == pageData(p).tags[sub[p]]
         ok == ~addTagIgnored(row) /\ ~fault
     IN /\ errorHandlerWrapper(p, TRUE, fault)
        /\ tag' = IF ok THEN tag \cup {row} ELSE tag
        /\ hist' = [hist EXCEPT ![p].wrote = @ \/ ok, ![p].faulty = @ \/ fault]
  /\ afterInsert(p, "addTag", Len(pageData(p).tags))
  /\ UNCHANGED <<fs, page, page_section, page_tag, collected, unchangedCount, storeFails, run, changes, restarts, simvars, ctxvars, chatvars, segvars>>

\* for (const pageTag of pageData.pageTags) await addPageTag(pageTag)
addPageTag(p, fault) ==
  /\ pc[p] = "addPageTag"
  /\ LET row == pageData(p).pageTags[sub[p]]
         accepted == addPageTagIgnored(row) \/ addPageTagForeignKeys(row)
         ok == ~addPageTagIgnored(row) /\ addPageTagForeignKeys(row) /\ ~fault
     IN /\ errorHandlerWrapper(p, accepted, fault)
        /\ page_tag' = IF ok THEN page_tag \cup {row} ELSE page_tag
        /\ hist' = [hist EXCEPT ![p].wrote = @ \/ ok, ![p].faulty = @ \/ fault]
  /\ afterInsert(p, "addPageTag", Len(pageData(p).pageTags))
  /\ UNCHANGED <<fs, page, page_section, tag, collected, unchangedCount, storeFails, run, changes, restarts, simvars, ctxvars, chatvars, segvars>>

Next ==
  \/ \E path \in PathSet, v \in Versions \cup {NoFile} : watchNotesDirectoryForChanges(path, v)
  \/ \E p \in PassIds : getAllNoteFilePaths(p)
  \/ \E p \in PassIds : getAllNoteFileObjects(p)
  \/ \E p \in PassIds, failAt \in 0..Len(Paths) : processFilesAndGenerateEmbeddings(p, failAt)
  \/ \E p \in PassIds : processNoteFiles_exists(p)
  \/ \E p \in PassIds : processNoteFiles_modified(p)
  \/ \E p \in PassIds : removePage(p)
  \/ \E p \in PassIds, fault \in BOOLEAN : addPage(p, fault)
  \/ \E p \in PassIds, fault \in BOOLEAN : addPageSection(p, fault)
  \/ \E p \in PassIds, fault \in BOOLEAN : addTag(p, fault)
  \/ \E p \in PassIds, fault \in BOOLEAN : addPageTag(p, fault)

Spec == Init /\ [][Next]_vars

\* the same program on a store whose inserts can fail (disk full, database
\* locked, ...); these runs are explored for passes that do not overlap
InitFaults ==
  /\ InitStore
  /\ storeFails = TRUE
  /\ fs \in InitialFiles
  /\ pc = [p \in PassIds |-> IF p = 1 THEN "list" ELSE "idle"]
  /\ vectorA = <<>> /\ vectorB = <<>> /\ simResult = NotCalled
  /\ NoContextCall /\ NoChat /\ NoDocument

\* removePage is called only when a page row of the path appears between the
\* doesPageExist and the isPageModified of one document, which takes a second
\* pass in progress
NextFaults ==
  \/ \E path \in PathSet, v \in Versions \cup {NoFile} : watchNotesDirectoryForChanges(path, v)
  \/ \E p \in PassIds : getAllNoteFilePaths(p)
  \/ \E p \in PassIds : getAllNoteFileObjects(p)
  \/ \E p \in PassIds, failAt \in 0..Len(Paths) : processFilesAndGenerateEmbeddings(p, failAt)
  \/ \E p \in PassIds : processNoteFiles_exists(p)
  \/ \E p \in PassIds : processNoteFiles_modified(p)
  \/ \E p \in PassIds, fault \in BOOLEAN : addPage(p, fault)
  \/ \E p \in PassIds, fault \in BOOLEAN : addPageSection(p, fault)
  \/ \E p \in PassIds, fault \in BOOLEAN : addTag(p, fault)
  \/ \E p \in PassIds, fault \in BOOLEAN : addPageTag(p, fault)

SpecFaults == InitFaults /\ [][NextFaults]_vars

\* ------------------------------------------------- closing and starting again
\* the paths whose page row pass p has written while the inserts of their
\* sections, tags and page tags are not finished
halfWritten(p) ==
  IF pc[p] \in {"addPageSection", "addTag", "addPageTag"}
     /\ \E r \in page : r.id = allPageData[p][idx[p]].page.id
    THEN {allPageData[p][idx[p]].page.page_path}
    ELSE {}

\* the application is closed (or killed) and started again: every pass in
\* progress stops where it is, the store file and the notes directory stay as
\* they are, and app.whenReady calls processNoteFiles() anew
appRestart ==
  /\ restarts < MaxRestarts
  /\ \E q \in PassIds :
       /\ \A o \in PassIds : run[q] <= run[o]
       /\ pc' = [r \in PassIds |-> IF r = q THEN "list" ELSE "idle"]
       /\ run' = [run EXCEPT ![q] = changes + restarts + 2]
       /\ hist' = [hist EXCEPT ![q] =
                     [NoHist EXCEPT !.interrupted = UNION {halfWritten(r) : r \in PassIds}]]
       /\ filePaths' = [filePaths EXCEPT ![q] = <<>>]
       /\ fileObjects' = [fileObjects EXCEPT ![q] = <<>>]
       /\ allPageData' = [allPageData EXCEPT ![q] = <<>>]
       /\ idx' = [idx EXCEPT ![q] = 0]
       /\ sub' = [sub EXCEPT ![q] = 0]
       /\ unchangedCount' = [unchangedCount EXCEPT ![q] = 0]
       /\ changedCount' = [changedCount EXCEPT ![q] = 0]
       /\ modifiedPages' = [modifiedPages EXCEPT ![q] = <<>>]
       /\ errs' = [errs EXCEPT ![q] = 0]
  /\ restarts' = restarts + 1
  /\ UNCHANGED <<fs, dbvars, faults, storeFails, changes, simvars, ctxvars, chatvars, segvars>>

\* the passes of an application that is closed and started again while the
\* notes directory stays as it is
NextRestart ==
  \/ appRestart
  \/ \E p \in PassIds : getAllNoteFilePaths(p)
  \/ \E p \in PassIds : getAllNoteFileObjects(p)
  \/ \E p \in PassIds, failAt \in 0..Len(Paths) : processFilesAndGenerateEmbeddings(p, failAt)
  \/ \E p \in PassIds : processNoteFiles_exists(p)
  \/ \E p \in PassIds : processNoteFiles_modified(p)
  \/ \E p \in PassIds, fault \in BOOLEAN : addPage(p, fault)
  \/ \E p \in PassIds, fault \in BOOLEAN : addPageSection(p, fault)
  \/ \E p \in PassIds, fault \in BOOLEAN : addTag(p, fault)
  \/ \E p \in PassIds, fault \in BOOLEAN : addPageTag(p, fault)

SpecRestart == Init /\ [][NextRestart]_vars

\* ------------------------------------------ getSimilarity on its own
\* the two vectors are any vectors of the bounded set; no pass is running
InitSim ==
  /\ InitStore
  /\ storeFails = FALSE
  /\ fs = [p \in PathSet |-> NoFile]
  /\ pc = [p \in PassIds |-> "idle"]
  /\ vectorA \in Vectors /\ vectorB \in Vectors
  /\ simResult = NotCalled
  /\ NoContextCall /\ NoChat /\ NoDocument

getSimilarityCall ==
  /\ ~simResult.called
  /\ simResult' = getSimilarity(vectorA, vectorB)
  /\ UNCHANGED <<fs, dbvars, passvars, vectorA, vectorB, ctxvars, chatvars, segvars>>

NextSim == getSimilarityCall

SpecSim == InitSim /\ [][NextSim]_vars

\* ------------------------------------------ getPageSectionContext
\* A number with a fraction is kept as an integer: a component of an
\* embedding in tenths, a similarity (a sum of products of two components)
\* in hundredths.  A string that is put together from pieces is the sequence
\* of its pieces.
MaxSections == 12   \* rows of page_section offered to getPageSectionContext
MATCH_COUNT == 10
SIMILARITY_THRESHOLD == 30
separator == "\n---\n"

\* the embeddings of the stored rows and of the query; all of one length, as
\* they come from one embedding model.  The similarities of the two stored
\* embeddings are 0.3 and 0.5 to the first query, 0.1 and 0.5 to the second,
\* 0.4 and 1 to the third, -0.3 and -0.5 to the fourth
Embeddings == {<<3, 1>>, <<5, 5>>}
QueryEmbeddings == {<<10, 0>>, <<0, 10>>, <<10, 10>>, <<0 - 10, 0>>}

\* Buffer.from(JSON.stringify(vector)) and JSON.parse(blob.toString())
serializeVector(vector) == <<"json", vector>>
deserializeVector(vectorBlob) == vectorBlob[2]

\* the comparator of Array.prototype.sort: negative when a goes before b
\* variant: the comparator ranks the least similar first
sortByRelevance_ascending(a, b, userEmb) ==
  getSimilarity(deserializeVector(a.embedding), userEmb).value
    - getSimilarity(deserializeVector(b.embedding), userEmb).value

sortByRelevance(a, b, userEmb) ==
  getSimilarity(deserializeVector(b.embedding), userEmb).value
    - getSimilarity(deserializeVector(a.embedding), userEmb).value

\* Array.prototype.sort with sortByRelevance: a stable sort, so a row goes
\* behind every row that the comparator does not put behind it
RECURSIVE sort(_, _)
sort(rows, userEmb) ==
  IF rows = <<>> THEN <<>>
  ELSE LET n == Len(rows)
           sorted == sort(SubSeq(rows, 1, n - 1), userEmb)
           k == Cardinality({i \in 1..(n - 1) : sortByRelevance(sorted[i], rows[n], userEmb) <= 0})
       IN  SubSeq(sorted, 1, k) \o <<rows[n]>> \o SubSeq(sorted, k + 1, n - 1)

\* Array.prototype.join: the pieces with the separator between them, the
\* empty string for no piece
join(context, sep) ==
  [k \in 1..(IF context = <<>> THEN 0 ELSE 2 * Len(context) - 1) |->
     IF k % 2 = 1 THEN context[(k + 1) \div 2] ELSE sep]

\* the for loop of getPageSectionContext from row i of the sorted rows on
RECURSIVE pageSectionLoop(_, _, _, _)
pageSectionLoop(sorted, i, userEmb, context) ==
  IF i > Len(sorted) THEN context
  ELSE LET similarity == getSimilarity(deserializeVector(sorted[i].embedding), userEmb).value
       IN  IF similarity > SIMILARITY_THRESHOLD /\ Len(context) < MATCH_COUNT
             THEN pageSectionLoop(sorted, i + 1, userEmb, Append(context, sorted[i].content))
             ELSE context

getPageSectionContext(rows, serializedUserEmbedding) ==
  LET userEmb == deserializeVector(serializedUserEmbedding)
  IN  join(pageSectionLoop(sort(rows, userEmb), 1, userEmb, <<>>), separator)

\* the rows getPageSections returns: any number of rows up to the bound, with
\* any of the embeddings
PageSectionRows(embs) ==
  [i \in 1..Len(embs) |->
     [id |-> i, content |-> "section " \o ToString(i), embedding |-> serializeVector(embs[i])]]

InitCtx ==
  /\ InitStore
  /\ storeFails = FALSE
  /\ fs = [p \in PathSet |-> NoFile]
  /\ pc = [p \in PassIds |-> "idle"]
  /\ vectorA = <<>> /\ vectorB = <<>> /\ simResult = NotCalled
  /\ NoChat /\ NoDocument
  /\ pageSections \in {PageSectionRows(embs) : embs \in UNION {[1..n -> Embeddings] : n \in 0..MaxSections}}
  /\ userEmbedding \in {serializeVector(q) : q \in QueryEmbeddings}
  /\ pageSectionContext = NotReturned

getPageSectionContextCall ==
  /\ ~pageSectionContext.returned
  /\ pageSectionContext' = [returned |-> TRUE, threw |-> FALSE,
                            value |-> getPageSectionContext(pageSections, userEmbedding)]
  /\ UNCHANGED <<fs, dbvars, passvars, simvars, pageSections, userEmbedding, chatvars, segvars>>

NextCtx == getPageSectionContextCall

SpecCtx == InitCtx /\ [][NextCtx]_vars

\* ------------------------------------ sendUserQuery and getChatContext
MaxTurns == 12      \* messages of the chat before sendUserQuery is called
RECENT_COUNT == 10

\* what the user can type, with what String.prototype.trim makes of it and
\* the embedding the model gives the trimmed text
UserQueries == {"q", " q ", "r"}
trim(userQuery) == IF userQuery = " q " THEN "q" ELSE userQuery
generateEmbeddingFromText(text) ==
  IF text = "q" THEN <<10, 0>> ELSE IF text = "r" THEN <<0, 10>> ELSE <<6, 8>>

\* RoleType: the turns of a chat are stored in pairs, the user's first
RoleOf(i) == IF i % 2 = 1 THEN "user" ELSE "assistant"

\* the rows SELECT * FROM message ... ORDER BY created_at ASC returns for a
\* chat with these embeddings, oldest first: created_at is the position
StoredMessages(embs) ==
  [i \in 1..Len(embs) |->
     [id |-> i, role |-> RoleOf(i), content |-> "turn " \o ToString(i),
      embedding |-> serializeVector(embs[i]), created_at |-> i]]

\* Array.prototype.slice(start, end), positions counted from 0
slice(arr, start, end) ==
  SubSeq(arr, start + 1, IF end < Len(arr) THEN end ELSE Len(arr))

\* variant: the role is left out of the rendering
messageContentWithRole_content(m) == m.content

messageContentWithRole(m) == m.role \o ": " \o m.content

\* the for loop of getChatContext from message i of the sorted rest on
\* variant: the loop does not look at the number of turns already taken
RECURSIVE similarMessagesLoop_unbounded(_, _, _, _)
similarMessagesLoop_unbounded(sorted, i, userEmb, context) ==
  IF i > Len(sorted) THEN context
  ELSE LET similarity == getSimilarity(deserializeVector(sorted[i].embedding), userEmb).value
       IN  IF similarity > SIMILARITY_THRESHOLD
             THEN similarMessagesLoop_unbounded(sorted, i + 1, userEmb,
                                                Append(context, messageContentWithRole(sorted[i])))
             ELSE context

RECURSIVE similarMessagesLoop(_, _, _, _)
similarMessagesLoop(sorted, i, userEmb, context) ==
  IF i > Len(sorted) THEN context
  ELSE LET similarity == getSimilarity(deserializeVector(sorted[i].embedding), userEmb).value
       IN  IF similarity > SIMILARITY_THRESHOLD /\ Len(context) < MATCH_COUNT
             THEN similarMessagesLoop(sorted, i + 1, userEmb,
                                      Append(context, messageContentWithRole(sorted[i])))
             ELSE context

\* getChatContext: the first RECENT_COUNT rows rendered, the last of them
\* popped, then the rest of the rows by relevance
getChatContext(messages, serializedUserEmbedding) ==
  LET userEmb == deserializeVector(serializedUserEmbedding)
      recent == slice(messages, 0, RECENT_COUNT)
      pushed == [k \in 1..Len(recent) |-> messageContentWithRole(recent[k])]
      popped == IF pushed = <<>> THEN <<>> ELSE SubSeq(pushed, 1, Len(pushed) - 1)
      similarMessages == sort(slice(messages, RECENT_COUNT, Len(messages)), userEmb)
  IN  join(similarMessagesLoop(similarMessages, 1, userEmb, popped), separator)

\* isChatHistoryAvailable is an async function and sendUserQuery does not
\* await it: it hands back a promise.  The promise resolves to false for any
\* rows, since executeQuery returns nothing
isChatHistoryAvailable(rows) == [promise |-> TRUE, value |-> FALSE]
\* what a condition makes of such a value: a promise counts as true
truthy(v) == IF v.promise THEN TRUE ELSE v.value

\* the answers of the providers: the moderation notice, the completion, the
\* title and the description of a chat
moderationNotice == "Unfortunately, I was unable to generate a response. Error: flagged content"
getAiResponse(userContent) == "answer to " \o userContent
generateChatTitle(aiMessageContent, userMessageContent) ==
  "title of " \o userMessageContent \o " / " \o aiMessageContent
generateChatDescription(aiMessageContent, userMessageContent) ==
  "description of " \o userMessageContent \o " / " \o aiMessageContent

\* updateChatDetails: the row of the chat with the generated title and description
updateChatDetails(aiMessageContent, userMessageContent) ==
  [title |-> generateChatTitle(aiMessageContent, userMessageContent),
   description |-> generateChatDescription(aiMessageContent, userMessageContent)]

\* UPDATE message SET embedding = ? WHERE id = ?
\* variant: the update leaves the row as it is
updateMessageEmbedding_none(rows, messageId, embedding) == rows

updateMessageEmbedding(rows, messageId, embedding) ==
  [i \in 1..Len(rows) |->
     IF rows[i].id = messageId THEN [rows[i] EXCEPT !.embedding = embedding] ELSE rows[i]]

\* the rows of page_section when a query is sent
QueryPageSections == {<<>>, PageSectionRows(<<<<5, 5>>>>)}

\* sendUserQuery is called on a chat with any stored turns
InitChat ==
  /\ InitStore
  /\ storeFails = FALSE
  /\ fs = [p \in PathSet |-> NoFile]
  /\ pc = [p \in PassIds |-> "idle"]
  /\ vectorA = <<>> /\ vectorB = <<>> /\ simResult = NotCalled
  /\ NoDocument
  /\ pageSections \in QueryPageSections
  /\ userEmbedding = <<>> /\ pageSectionContext = NotReturned
  /\ message \in {StoredMessages(embs) : embs \in UNION {[1..n -> Embeddings] : n \in 0..MaxTurns}}
  /\ userMessage = <<>>
  /\ chatContext = NotReturned
  /\ chatPc = "addUserMessage"
  /\ chat = NewChat /\ hasPreviousMessages = NotAsked /\ moderationResponse = ""
  /\ aiMessage = <<>> /\ aiCalls = 0 /\ embeddingUpdates = <<>>

\* sendUserQuery up to the return of addUserMessage: the chat history is
\* asked for, the query is trimmed, embedded and stored as the newest message
addUserMessage(userQuery) ==
  /\ chatPc = "addUserMessage"
  /\ hasPreviousMessages' = isChatHistoryAvailable(message)
  /\ LET sanitizedQuery == trim(userQuery)
         row == [id |-> Len(message) + 1, role |-> "user", content |-> sanitizedQuery,
                 embedding |-> serializeVector(generateEmbeddingFromText(sanitizedQuery)),
                 created_at |-> Len(message) + 1]
     IN  /\ message' = Append(message, row)
         /\ userMessage' = row
  /\ chatPc' = "moderateUserMessage"
  /\ UNCHANGED <<fs, dbvars, passvars, simvars, ctxvars, chatContext, chat, moderationResponse,
                 aiMessage, aiCalls, embeddingUpdates, segvars>>

\* moderateUserMessage and the return of sendUserQuery behind it: the
\* moderation provider lets the query pass, flags it or fails.  For a flagged
\* query the notice is stored as an assistant message and returned, and
\* sendUserQuery returns
\* variant: sendUserQuery goes on after a flagged query
moderateUserMessage_goesOn(outcome) ==
  /\ chatPc = "moderateUserMessage"
  /\ IF outcome = "flagged"
       THEN /\ message' = Append(message,
                 [id |-> Len(message) + 1, role |-> "assistant", content |-> moderationNotice,
                  embedding |-> serializeVector(generateEmbeddingFromText(moderationNotice)),
                  created_at |-> Len(message) + 1])
            /\ moderationResponse' = moderationNotice
            /\ chatPc' = "getChatContext"
       ELSE /\ UNCHANGED <<message, moderationResponse>>
            /\ chatPc' = IF outcome = "passed" THEN "getChatContext" ELSE "failed"
  /\ UNCHANGED <<fs, dbvars, passvars, simvars, ctxvars, userMessage, chatContext, chat,
                 hasPreviousMessages, aiMessage, aiCalls, embeddingUpdates, segvars>>

moderateUserMessage(outcome) ==
  /\ chatPc = "moderateUserMessage"
  /\ IF outcome = "flagged"
       THEN /\ message' = Append(message,
                 [id |-> Len(message) + 1, role |-> "assistant", content |-> moderationNotice,
                  embedding |-> serializeVector(generateEmbeddingFromText(moderationNotice)),
                  created_at |-> Len(message) + 1])
            /\ moderationResponse' = moderationNotice
            /\ chatPc' = "done"
       ELSE /\ UNCHANGED <<message, moderationResponse>>
            /\ chatPc' = IF outcome = "passed" THEN "getChatContext" ELSE "failed"
  /\ UNCHANGED <<fs, dbvars, passvars, simvars, ctxvars, userMessage, chatContext, chat,
                 hasPreviousMessages, aiMessage, aiCalls, embeddingUpdates, segvars>>

\* sendUserQuery, for a query that moderation lets through: the chat context
\* is assembled from the stored messages and the embedding of the query
getChatContextCall ==
  /\ chatPc = "getChatContext"
  /\ chatContext' = [returned |-> TRUE, threw |-> FALSE,
                     value |-> getChatContext(message, userMessage.embedding)]
  /\ chatPc' = "getPageSectionContext"
  /\ UNCHANGED <<fs, dbvars, passvars, simvars, ctxvars, message, userMessage, chat,
                 hasPreviousMessages, moderationResponse, aiMessage, aiCalls, embeddingUpdates,
                 segvars>>

\* sendUserQuery: the context of page sections for the embedding of the query
getPageSectionContextOfQuery ==
  /\ chatPc = "getPageSectionContext"
  /\ pageSectionContext' = [returned |-> TRUE, threw |-> FALSE,
                            value |-> getPageSectionContext(pageSections, userMessage.embedding)]
  /\ chatPc' = "addAiMessage"
  /\ UNCHANGED <<fs, dbvars, passvars, simvars, pageSections, userEmbedding, message, userMessage,
                 chatContext, chat, hasPreviousMessages, moderationResponse, aiMessage, aiCalls,
                 embeddingUpdates, segvars>>

\* addAiMessage: the completion provider is called; its answer is embedded
\* and stored as an assistant message, or the call fails and sendUserQuery
\* is rejected
addAiMessage(answered) ==
  /\ chatPc = "addAiMessage"
  /\ aiCalls' = aiCalls + 1
  /\ IF answered
       THEN LET aiResponse == getAiResponse(userMessage.content)
                row == [id |-> Len(message) + 1, role |-> "assistant", content |-> aiResponse,
                        embedding |-> serializeVector(generateEmbeddingFromText(aiResponse)),
                        created_at |-> Len(message) + 1]
            IN  /\ message' = Append(message, row)
                /\ aiMessage' = row
                /\ chatPc' = "updateMessageEmbedding"
       ELSE /\ UNCHANGED <<message, aiMessage>>
            /\ chatPc' = "failed"
  /\ UNCHANGED <<fs, dbvars, passvars, simvars, ctxvars, userMessage, chatContext, chat,
                 hasPreviousMessages, moderationResponse, embeddingUpdates, segvars>>

\* the rest of sendUserQuery: the combined text is embedded, both messages
\* get that embedding, and the details of the chat are updated unless
\* hasPreviousMessages counts as true.  A Buffer joined to a string gives its
\* text, the JSON of the vector
updateMessageEmbeddings ==
  /\ chatPc = "updateMessageEmbedding"
  /\ LET combinedQuestionResponse ==
           userMessage.content \o separator \o ToString(deserializeVector(aiMessage.embedding))
         serializedCombinedEmbedding ==
           serializeVector(generateEmbeddingFromText(combinedQuestionResponse))
     IN  /\ message' = updateMessageEmbedding(
                         updateMessageEmbedding(message, userMessage.id, serializedCombinedEmbedding),
                         aiMessage.id, serializedCombinedEmbedding)
         /\ embeddingUpdates' = embeddingUpdates \o
              << [id |-> userMessage.id, embedding |-> serializedCombinedEmbedding],
                 [id |-> aiMessage.id, embedding |-> serializedCombinedEmbedding] >>
  /\ chat' = IF ~truthy(hasPreviousMessages)
               THEN updateChatDetails(aiMessage.content, userMessage.content)
               ELSE chat
  /\ chatPc' = "done"
  /\ UNCHANGED <<fs, dbvars, passvars, simvars, ctxvars, userMessage, chatContext,
                 hasPreviousMessages, moderationResponse, aiMessage, aiCalls, segvars>>

NextChat ==
  \/ \E userQuery \in UserQueries : addUserMessage(userQuery)
  \/ \E outcome \in {"passed", "flagged", "throws"} : moderateUserMessage(outcome)
  \/ getChatContextCall
  \/ getPageSectionContextOfQuery
  \/ \E answered \in BOOLEAN : addAiMessage(answered)
  \/ updateMessageEmbeddings

SpecChat == InitChat /\ [][NextChat]_vars

\* ------------------------------------------------------------ getSections
MaxNodes == 5       \* top-level nodes of the document

\* mdast: a top-level node is a heading with a depth or some other block; the
\* value is the text of the node
HeadingDepths == {1, 2, 3}
NodeKinds == HeadingDepths \cup {0}
Hashes == <<"#", "##", "###">>
Node(kind, k) ==
  IF kind = 0 THEN [type |-> "paragraph", value |-> "text " \o ToString(k)]
              ELSE [type |-> "heading", depth |-> kind, value |-> "Title " \o ToString(k)]
MdTree(kinds) == [k \in 1..Len(kinds) |-> Node(kinds[k], k)]

undefined == "undefined"
null == [null |-> TRUE]

\* getRootContentDepth of tsErrorWorkaround: the depth of a heading; a node
\* of the leading run counts as depth 0
getDepth(node) == IF node.type = "heading" THEN node.depth ELSE 0

\* mdast-util-to-string, slugify and mdast-util-to-markdown: the text of a
\* heading, its url form, and the markdown lines of the children of a tree
toString(node) == node.value
slugify(heading) == "slug-of " \o heading
toMarkdown(children) ==
  [k \in 1..Len(children) |->
     IF children[k].type = "heading"
       THEN Hashes[children[k].depth] \o " " \o children[k].value
       ELSE children[k].value]

\* splitTreeBy with the predicate node.type === 'heading': the reduce over the
\* children, a node opens a new tree when there is no tree yet or it is a
\* heading, and joins the last tree otherwise
RECURSIVE splitTreeBy(_, _, _)
splitTreeBy(children, i, trees) ==
  IF i > Len(children) THEN trees
  ELSE IF trees = <<>> \/ children[i].type = "heading"
    THEN splitTreeBy(children, i + 1, Append(trees, <<children[i]>>))
    ELSE splitTreeBy(children, i + 1,
                     [trees EXCEPT ![Len(trees)] = Append(trees[Len(trees)], children[i])])

\* removeIrrelevantNodes: pop while the top is at least as deep as depth
RECURSIVE removeIrrelevantNodes(_, _)
removeIrrelevantNodes(parentNodes, depth) ==
  IF Len(parentNodes) > 0 /\ getDepth(parentNodes[Len(parentNodes)]) >= depth
    THEN removeIrrelevantNodes(SubSeq(parentNodes, 1, Len(parentNodes) - 1), depth)
    ELSE parentNodes

\* the section of a tree whose children are these, led by firstNode
RawPageSection(firstNode, children) ==
  LET heading == IF firstNode.type = "heading" THEN toString(firstNode) ELSE undefined
  IN  [content |-> toMarkdown(children),
       heading |-> heading,
       slug |-> IF heading # undefined THEN slugify(heading) ELSE undefined]

\* the callback of sectionTrees.map for one tree, given the stack as the
\* earlier trees left it: the stack it leaves, what it returns and what it
\* has put in front of the children of the tree
mapCallback(tree, parents) ==
  LET firstNode == tree[1]
  IN  IF Len(tree) = 1
        THEN [parents |-> Append(parents, firstNode), section |-> null, prefix |-> <<>>]
      ELSE IF Len(parents) = 0
        THEN [parents |-> Append(parents, firstNode),
              section |-> RawPageSection(firstNode, tree), prefix |-> <<>>]
      ELSE LET firstNodeDepth == getDepth(firstNode)
               parentDepth == getDepth(parents[Len(parents)])
               kept == IF firstNodeDepth <= parentDepth
                         THEN removeIrrelevantNodes(parents, firstNodeDepth)
                         ELSE parents
           IN  [parents |-> Append(kept, firstNode),
                section |-> RawPageSection(firstNode, kept \o tree), prefix |-> kept]

\* processMarkdown hands getSections the tree of any document
InitSeg ==
  /\ InitStore
  /\ storeFails = FALSE
  /\ fs = [p \in PathSet |-> NoFile]
  /\ pc = [p \in PassIds |-> "idle"]
  /\ vectorA = <<>> /\ vectorB = <<>> /\ simResult = NotCalled
  /\ NoContextCall /\ NoChat
  /\ mdTree \in {MdTree(kinds) : kinds \in UNION {[1..n -> NodeKinds] : n \in 0..MaxNodes}}
  /\ sectionTrees = <<>> /\ treeIdx = 0
  /\ pastParentHeaderNodes = <<>> /\ sections = <<>> /\ filteredSections = <<>>
  /\ segPc = "splitTreeBy" /\ prefixes = <<>>

splitTreeByCall ==
  /\ segPc = "splitTreeBy"
  /\ sectionTrees' = splitTreeBy(mdTree, 1, <<>>)
  /\ segPc' = "map"
  /\ UNCHANGED <<fs, dbvars, passvars, simvars, ctxvars, chatvars, mdTree, treeIdx,
                 pastParentHeaderNodes, sections, filteredSections, prefixes>>

\* one call of the map callback, for the next tree
mapSectionTree ==
  /\ segPc = "map"
  /\ treeIdx < Len(sectionTrees)
  /\ LET res == mapCallback(sectionTrees[treeIdx + 1], pastParentHeaderNodes)
     IN  /\ pastParentHeaderNodes' = res.parents
         /\ sections' = Append(sections, res.section)
         /\ prefixes' = Append(prefixes, res.prefix)
  /\ treeIdx' = treeIdx + 1
  /\ UNCHANGED <<fs, dbvars, passvars, simvars, ctxvars, chatvars, mdTree, sectionTrees,
                 filteredSections, segPc>>

\* the loop that drops the nulls, and the return
filterSections ==
  /\ segPc = "map"
  /\ treeIdx = Len(sectionTrees)
  /\ filteredSections' = SelectSeq(sections, LAMBDA section : section # null)
  /\ segPc' = "done"
  /\ UNCHANGED <<fs, dbvars, passvars, simvars, ctxvars, chatvars, mdTree, sectionTrees, treeIdx,
                 pastParentHeaderNodes, sections, prefixes>>

NextSeg ==
  \/ splitTreeByCall
  \/ mapSectionTree
  \/ filterSections

SpecSeg == InitSeg /\ [][NextSeg]_vars

\* ================================================================ claims
SeenPaths(p) == {fileObjects[p][i].path : i \in 1..Len(fileObjects[p])}

\* a pass that ran to its console.log with no other pass in progress meanwhile
DoneAlone(p) == pc[p] = "done" /\ hist[p].solo

\* q is the call of processNoteFiles that directly follows p, both ran alone
\* and to the end, and both read the same files with the same content
RanTwice(p, q) ==
  /\ run[p] >= 1 /\ run[q] = run[p] + 1
  /\ DoneAlone(p) /\ DoneAlone(q)
  /\ fileObjects[q] = fileObjects[p]

\* C1: when processNoteFiles runs twice in sequence over the same files with
\* the same content, the second pass ends with changedCount = 0 and
\* unchangedCount = number of files, and it has written no row: every table
\* is as the first pass left it.
C1_RerunIsNoOp ==
  \A p, q \in PassIds :
    RanTwice(p, q) =>
      /\ changedCount[q] = 0
      /\ unchangedCount[q] = Len(fileObjects[q])
      /\ modifiedPages[q] = <<>>
      /\ ~hist[q].wrote

C1_Witness ==
  \E p, q \in PassIds :
    RanTwice(p, q) /\ Len(fileObjects[q]) = 2 /\ changedCount[p] = 2

\* C2: a pass that sees a file whose path is stored with a different checksum
\* replaces the document, so that after the pass the checksum stored for the
\* path is the checksum of the file's current content.
C2_ChangedFileReplaced ==
  \A q \in PassIds :
    DoneAlone(q) =>
      \A i \in 1..Len(allPageData[q]) :
        LET pd == allPageData[q][i]
        IN pd.page.page_path \in hist[q].stale =>
             /\ \E r \in page : r.page_path = pd.page.page_path
             /\ \A r \in page : r.page_path = pd.page.page_path => r.checksum = pd.page.checksum

C4_DisappearedSourceDeleted ==
  \A q \in PassIds :
    DoneAlone(q) =>
      /\ \A r \in page : r.page_path \in SeenPaths(q)
      /\ \A x \in page_section : \A r \in page : r.id = x.page_id => r.page_path \in SeenPaths(q)
      /\ \A x \in page_tag : \A r \in page : r.id = x.page_id => r.page_path \in SeenPaths(q)

\* C5: when embedding generation fails for one document of a pass, every
\* other document of the pass is still stored with its sections.
C5_EmbeddingFailureIsolated ==
  \A p \in PassIds :
    (pc[p] = "failed" /\ hist[p].embedFail > 0 /\ hist[p].solo) =>
      \A i \in 1..Len(fileObjects[p]) :
        i # hist[p].embedFail =>
          \E r \in page :
            /\ r.page_path = fileObjects[p][i].path
            /\ \A c \in {processMarkdown(fileObjects[p][i].content).sections[k] :
                          k \in 1..Len(processMarkdown(fileObjects[p][i].content).sections)} :
                 \E x \in page_section : x.page_id = r.id /\ x.content = c

\* C6: after a pass, also one in which store inserts failed, each document of
\* the pass is stored with its page row and every section, or with neither
\* its page row nor any section.
C6_AllOrNothing ==
  \A p \in PassIds :
    pc[p] = "done" =>
      \A i \in 1..Len(allPageData[p]) :
        LET pd == allPageData[p][i]
            stored == {k \in 1..Len(pd.pageSections) : pd.pageSections[k] \in page_section}
        IN IF pd.page \in page
             THEN stored = 1..Len(pd.pageSections)
             ELSE stored = {}

\* C7: after a pass has indexed two documents at different paths that declare
\* the same tag name, there is exactly one tag row with that name and each of
\* the two documents has a page_tag row that refers to it.
C7_TagsShared ==
  \A p \in PassIds :
    DoneAlone(p) =>
      \A i, j \in 1..Len(allPageData[p]) : \A n \in TagNames :
        LET di == allPageData[p][i]
            dj == allPageData[p][j]
            declares(d) == \E k \in 1..Len(d.tags) : d.tags[k].name = n
            linked(d) == \E t \in tag, x \in page_tag :
                           t.name = n /\ x.tag_id = t.id /\ x.page_id = d.page.id
        IN (i # j /\ di.page \in page /\ dj.page \in page /\ declares(di) /\ declares(dj))
             => /\ Cardinality({t \in tag : t.name = n}) = 1
                /\ linked(di) /\ linked(dj)

\* C8: removePage(path) deletes the page rows of the path with all of their
\* sections and page_tag rows, deletes no tag row, and leaves every row of
\* every other page as it is.
C8_RemovePageCascades ==
  [][\A p \in PassIds :
       (pc[p] = "removePage" /\ pc'[p] # "removePage") =>
         LET path == allPageData[p][idx[p]].page.page_path
             gone == {r.id : r \in {x \in page : x.page_path = path}}
         IN /\ \A r \in page' : r.page_path # path
            /\ \A x \in page_section' : x.page_id \notin gone
            /\ \A x \in page_tag' : x.page_id \notin gone
            /\ tag' = tag
            /\ \A r \in page : r.page_path # path => r \in page'
            /\ \A x \in page_section : x.page_id \notin gone => x \in page_section'
            /\ \A x \in page_tag : x.page_id \notin gone => x \in page_tag'
            /\ page' \subseteq page /\ page_section' \subseteq page_section
            /\ page_tag' \subseteq page_tag]_vars

\* removePage has just deleted a page; the page of the other path still has
\* its sections and a page_tag row, and a tag row that no page_tag row refers
\* to any more is still there
C8_Witness ==
  \E p \in PassIds :
    /\ pc[p] = "addPage"
    /\ hist[p].removed # {}
    /\ \A r \in page : r.id \notin hist[p].removed
    /\ \E r \in page : (\E x \in page_section : x.page_id = r.id)
                        /\ (\E x \in page_tag : x.page_id = r.id)
    /\ \E t \in tag : \A x \in page_tag : x.tag_id # t.id

\* C9: getSimilarity(a, b) throws for every pair of vectors of different
\* lengths and never returns a number for them.
C9_MismatchThrows ==
  (simResult.called /\ Len(vectorA) # Len(vectorB)) => simResult.threw

\* the dot product, summed from the last component down
RECURSIVE SumOfProducts(_, _, _)
SumOfProducts(a, b, n) ==
  IF n = 0 THEN 0 ELSE SumOfProducts(a, b, n - 1) + b[n] * a[n]

\* C10: for vectors a and b of equal length, getSimilarity(a, b) returns a
\* number, the same as getSimilarity(b, a), and it is the dot product of a and b.
C10_SimilaritySymmetric ==
  (simResult.called /\ Len(vectorA) = Len(vectorB)) =>
    /\ ~simResult.threw
    /\ simResult = getSimilarity(vectorB, vectorA)
    /\ simResult.value = SumOfProducts(vectorA, vectorB, Len(vectorA))

C10_Witness ==
  /\ simResult.called
  /\ Len(vectorA) = MaxVecLen /\ Len(vectorB) = MaxVecLen
  /\ vectorA # vectorB
  /\ simResult.value # 0

\* ------------------------------------------------------------------- C11
\* similarity of a stored row to the query, by the reference sum of products
Similarity(row, blob) ==
  LET e == deserializeVector(row.embedding)
  IN  SumOfProducts(e, deserializeVector(blob), Len(e))
Qualifying ==
  {i \in 1..Len(pageSections) : Similarity(pageSections[i], userEmbedding) > SIMILARITY_THRESHOLD}
Min(a, b) == IF a < b THEN a ELSE b

\* C11: getPageSectionContext returns the contents of exactly the
\* min(MATCH_COUNT, k) most similar rows among the k rows whose similarity to
\* the query is strictly greater than 0.3, in descending order of similarity
\* and joined by the separator; no row at or below 0.3 is included, no
\* qualifying row is lost by stopping at the first failing row, and no row at
\* all gives the empty string
C11_MostSimilarAboveThreshold ==
  pageSectionContext.returned =>
    LET out == pageSectionContext.value
        sim == [i \in 1..Len(pageSections) |-> Similarity(pageSections[i], userEmbedding)]
        qualifying == {i \in 1..Len(pageSections) : sim[i] > SIMILARITY_THRESHOLD}
        m == Min(MATCH_COUNT, Cardinality(qualifying))
    IN  /\ ~pageSectionContext.threw
        /\ Len(out) = (IF m = 0 THEN 0 ELSE 2 * m - 1)
        /\ \A k \in 1..Len(out) : k % 2 = 0 => out[k] = separator
        /\ \A j \in 1..m : \E i \in qualifying : pageSections[i].content = out[2 * j - 1]
        /\ LET pick == [j \in 1..m |->
                          CHOOSE i \in 1..Len(pageSections) : pageSections[i].content = out[2 * j - 1]]
               picked == {pick[j] : j \in 1..m}
           IN  /\ Cardinality(picked) = m
               /\ \A j \in 1..(m - 1) : sim[pick[j]] >= sim[pick[j + 1]]
               /\ \A i \in qualifying \ picked : m > 0 /\ sim[i] <= sim[pick[m]]

\* more than MATCH_COUNT rows qualify, they were not stored in order of
\* similarity, and the context has been returned
C11_Witness ==
  /\ pageSectionContext.returned
  /\ Cardinality(Qualifying) > MATCH_COUNT
  /\ \E i, j \in Qualifying :
       i < j /\ Similarity(pageSections[i], userEmbedding) < Similarity(pageSections[j], userEmbedding)

\* ------------------------------------------------------------ C12 .. C15
\* getChatContext has returned and sendUserQuery has not gone on yet
ContextReturned == chatContext.returned /\ chatPc = "getPageSectionContext"
\* the pieces of a joined string, without the separators between them
Pieces(out) == [j \in 1..((Len(out) + 1) \div 2) |-> out[2 * j - 1]]
\* turn i of the chat as 'role: content'
Rendered(i) == message[i].role \o ": " \o message[i].content
\* the number of turns getChatContext takes without looking at similarity
BlockLen == IF message = <<>> THEN 0 ELSE Min(Len(message), RECENT_COUNT) - 1
\* the turns that are ranked by similarity
Ranked == (RECENT_COUNT + 1)..Len(message)

C13_QueryExcluded ==
  ContextReturned =>
    \A j \in 1..Len(Pieces(chatContext.value)) :
      Pieces(chatContext.value)[j] # Rendered(Len(message))

\* C14: the chat context never holds more than MATCH_COUNT turns; the turns
\* after the first RECENT_COUNT are ranked within what the block leaves of
\* that budget, so with RECENT_COUNT or more stored turns at most one of them
\* is appended, only if its similarity to the query is strictly greater than
\* 0.3, and behind the chronological block
C14_AtMostMatchCount ==
  ContextReturned =>
    LET pieces == Pieces(chatContext.value)
    IN  /\ Len(pieces) <= MATCH_COUNT
        /\ Len(message) >= RECENT_COUNT => Len(pieces) <= BlockLen + 1
        /\ \A j \in 1..Len(pieces) :
             IF j <= BlockLen
               THEN pieces[j] = Rendered(j)
               ELSE \E i \in Ranked :
                      /\ pieces[j] = Rendered(i)
                      /\ Similarity(message[i], userMessage.embedding) > SIMILARITY_THRESHOLD

\* a ranked turn was appended, a second ranked turn above the threshold was
\* not, and a third ranked turn is at or below the threshold
C14_Witness ==
  /\ ContextReturned
  /\ Len(Pieces(chatContext.value)) = MATCH_COUNT
  /\ \E i, j, l \in Ranked :
       /\ i # j
       /\ Similarity(message[i], userMessage.embedding) > SIMILARITY_THRESHOLD
       /\ Similarity(message[j], userMessage.embedding) > SIMILARITY_THRESHOLD
       /\ Similarity(message[l], userMessage.embedding) <= SIMILARITY_THRESHOLD

\* C15: for a chat with more than RECENT_COUNT stored turns, the turns taken
\* without looking at similarity are the turns created most recently before
\* the query, not the oldest turns
C15_RecentTurnsBlock ==
  (ContextReturned /\ Len(message) > RECENT_COUNT) =>
    \A j \in 1..BlockLen :
      Pieces(chatContext.value)[j] = Rendered(Len(message) - 1 - BlockLen + j)

\* ------------------------------------------------------------ C16 .. C20
\* a run has body content when it holds a node that is not a heading
HasBody(r) == \E k \in 1..Len(sectionTrees[r]) : sectionTrees[r][k].type # "heading"
HeadingLed(r) == sectionTrees[r][1].type = "heading"
\* the headings a heading of depth d is nested under, looking back from run i:
\* the nearest earlier heading that is shallower, then the nearest before that
\* one that is shallower still, and so on; outermost first
RECURSIVE AncestorsFrom(_, _)
AncestorsFrom(i, d) ==
  IF i = 0 THEN <<>>
  ELSE LET n == sectionTrees[i][1]
       IN  IF n.type = "heading" /\ n.depth < d
             THEN Append(AncestorsFrom(i - 1, n.depth), n)
             ELSE AncestorsFrom(i - 1, d)
Ancestors(r) == AncestorsFrom(r - 1, sectionTrees[r][1].depth)

\* C16: for every run with body content whose leading heading is nested under
\* earlier headings, the content of the emitted section starts with the
\* heading lines of those ancestors, outermost first, followed by the run's
\* own heading and body, also when the ancestors were heading-only runs
C16_AncestorHeadingsPrefixed ==
  \A r \in 1..treeIdx :
    (HasBody(r) /\ HeadingLed(r) /\ Ancestors(r) # <<>>) =>
      /\ sections[r] # null
      /\ sections[r].content = toMarkdown(Ancestors(r)) \o toMarkdown(sectionTrees[r])

\* C17: after every run the ancestor stack is ordered by strictly increasing
\* heading depth, and every heading put in front of a section is strictly
\* shallower than the leading heading of the section
C17_PrefixedAreAncestors ==
  /\ \A i, j \in 1..Len(pastParentHeaderNodes) :
       (/\ i < j
        /\ pastParentHeaderNodes[i].type = "heading"
        /\ pastParentHeaderNodes[j].type = "heading")
         => pastParentHeaderNodes[i].depth < pastParentHeaderNodes[j].depth
  /\ \A r \in 1..treeIdx : \A k \in 1..Len(prefixes[r]) :
       (HeadingLed(r) /\ prefixes[r][k].type = "heading")
         => prefixes[r][k].depth < sectionTrees[r][1].depth

\* C18: only heading nodes are pushed on the stack and put in front of a
\* section, never a block of the body of an earlier run or of the leading
\* run, and the first run is emitted as it is
C18_PrefixHeadingsOnly ==
  /\ \A k \in 1..Len(pastParentHeaderNodes) : pastParentHeaderNodes[k].type = "heading"
  /\ \A r \in 1..treeIdx : \A k \in 1..Len(prefixes[r]) : prefixes[r][k].type = "heading"
  /\ (treeIdx >= 1 /\ sections[1] # null) => sections[1].content = toMarkdown(sectionTrees[1])

\* C19: a document without any heading yields exactly one section, with
\* heading and slug undefined, whether it has one top-level block or several
C19_NoHeadingOneSection ==
  (/\ segPc = "done"
   /\ mdTree # <<>>
   /\ \A k \in 1..Len(mdTree) : mdTree[k].type # "heading")
    => /\ Len(filteredSections) = 1
       /\ filteredSections[1].heading = undefined
       /\ filteredSections[1].slug = undefined

\* the runs with body content, in document order
BodyRuns == SelectSeq([r \in 1..Len(sectionTrees) |-> r], HasBody)

\* C20: a run that is only a heading emits no section wherever it stands, and
\* the emitted sections are, in number and in document order, the runs that
\* have body content; a document of heading-only runs yields no section
C20_SectionsAreRunsWithBody ==
  segPc = "done" =>
    /\ \A r \in 1..Len(sectionTrees) : ~HasBody(r) => sections[r] = null
    /\ Len(filteredSections) = Len(BodyRuns)
    /\ \A k \in 1..Len(filteredSections) :
         k <= Len(BodyRuns) =>
           filteredSections[k].heading =
             (IF HeadingLed(BodyRuns[k]) THEN sectionTrees[BodyRuns[k]][1].value ELSE undefined)

\* ------------------------------------------------------- C21, C22, C27
\* sendUserQuery has run to its end with an answer of the completion provider
ExchangeCompleted == chatPc = "done" /\ aiCalls > 0

\* C21: when sendUserQuery completes the first exchange of a chat that had
\* no stored message before the query, title and description of the chat are
\* filled in from the contents of the two messages; for a chat that had
\* messages they are left as they were
C21_FirstExchangeBackfilled ==
  ExchangeCompleted =>
    IF userMessage.id = 1
      THEN chat = [title |-> "title of " \o userMessage.content \o " / " \o aiMessage.content,
                   description |->
                     "description of " \o userMessage.content \o " / " \o aiMessage.content]
      ELSE chat = NewChat

\* C22: the user turn is first stored with the embedding of its own trimmed
\* content; once the exchange completes unflagged, the stored embeddings of
\* the user turn and of the assistant turn have each been overwritten exactly
\* once, with one and the same combined embedding, and are identical
C22_SharedCombinedEmbedding ==
  /\ chatPc = "moderateUserMessage" =>
       /\ message[Len(message)] = userMessage
       /\ userMessage.content \in {"q", "r"}
       /\ userMessage.embedding = <<"json", IF userMessage.content = "q" THEN <<10, 0>> ELSE <<0, 10>>>>
  /\ ~ExchangeCompleted => embeddingUpdates = <<>>
  /\ ExchangeCompleted =>
       /\ Len(embeddingUpdates) = 2
       /\ {embeddingUpdates[1].id, embeddingUpdates[2].id} = {userMessage.id, aiMessage.id}
       /\ userMessage.id # aiMessage.id
       /\ embeddingUpdates[1].embedding = embeddingUpdates[2].embedding
       /\ message[userMessage.id].embedding = embeddingUpdates[1].embedding
       /\ message[aiMessage.id].embedding = embeddingUpdates[1].embedding
       /\ message[userMessage.id].embedding # userMessage.embedding

\* an exchange has completed in a chat that had turns before
C22_Witness == ExchangeCompleted /\ userMessage.id > 2

\* C27: when moderation flags the query, sendUserQuery stores the user turn
\* and one assistant turn with the notice and stops: the completion provider
\* is not called, no context is assembled, no stored embedding is overwritten
\* and title and description of the chat stay as they were
C27_FlaggedStops ==
  moderationResponse # "" =>
    /\ chatPc = "done"
    /\ Len(message) = userMessage.id + 1
    /\ message[userMessage.id] = userMessage
    /\ message[Len(message)].role = "assistant"
    /\ message[Len(message)].content = moderationResponse
    /\ aiCalls = 0
    /\ ~chatContext.returned /\ ~pageSectionContext.returned
    /\ embeddingUpdates = <<>>
    /\ chat = NewChat

\* a query was flagged in a chat that had turns before
C27_Witness == moderationResponse # "" /\ chatPc = "done" /\ userMessage.id > 2

\* ------------------------------------------------------------------- C23
\* C23: at most one indexing pass is in progress against the store at any
\* time: a pass started at startup or by a change notification never overlaps
\* with a pass that has not finished
C23_OnePassAtATime == Cardinality({p \in PassIds : Active(p)}) <= 1

\* ------------------------------------------------------------------- C25
\* C25: isPageModified(path, checksum) is true exactly when the store holds a
\* page row for path whose checksum differs from the given one, and false
\* otherwise, also when the stored checksum equals the given one
C25_ModifiedIffChecksumDiffers ==
  \A pagePath \in PathSet, v \in Versions :
    LET checksum == createHash(content(v))
    IN  isPageModified(pagePath, checksum)
          <=> \E r \in page : r.page_path = pagePath /\ r.checksum # checksum

\* ------------------------------------------------------------------- C24
\* C24: when a pass was stopped after it had written a document's page row
\* and before it had written all of the document's sections and tag
\* associations, the next pass that finishes over the same files leaves the
\* document stored with all its sections and all its tag associations
C24_RerunCompletesDocument ==
  \A p \in PassIds :
    pc[p] = "done" =>
      \A pagePath \in hist[p].interrupted :
        \E r \in page :
          /\ r.page_path = pagePath
          /\ Cardinality({x \in page_section : x.page_id = r.id})
               = Len(processMarkdown(content(fs[pagePath])).sections)
          /\ Cardinality({x \in page_tag : x.page_id = r.id})
               = Len(metadata(fs[pagePath]))

C28_CountsMatchWrites ==
  \A p \in PassIds :
    pc[p] = "done" =>
      /\ unchangedCount[p] + changedCount[p] = Len(allPageData[p])
      /\ Len(modifiedPages[p]) = changedCount[p]
      /\ \A i \in 1..Len(allPageData[p]) :
           (\E k \in 1..Len(modifiedPages[p]) :
              modifiedPages[p][k] = allPageData[p][i].page.page_path)
             <=> \E r \in page : r.id = allPageData[p][i].page.id

\* ------------------------------------------------------------------- C29
\* C29: at every moment of every sequence of passes, each page_tag row refers
\* to a tag row and to a page row that are stored, and each page_section row
\* refers to a page row that is stored
C29_NoDanglingReference ==
  /\ \A t \in page_tag :
       /\ \E r \in tag : r.id = t.tag_id
       /\ \E r \in page : r.id = t.page_id
  /\ \A x \in page_section : \E r \in page : r.id = x.page_id

\* a finished pass whose association with a tag id that is not stored was
\* turned down, in a store that holds sections and associations
C29_Witness ==
  \E p \in PassIds :
    /\ pc[p] = "done" /\ errs[p] > 0
    /\ page_tag # {} /\ page_section # {}
    /\ \E k \in 1..Len(allPageData[p]) :
         \E j \in 1..Len(allPageData[p][k].pageTags) :
           \A r \in tag : r.id # allPageData[p][k].pageTags[j].tag_id

\* ------------------------------------------------------------------- C30
\* C30: at every moment of every sequence of passes, also of passes that
\* overlap while a file is rewritten between them, the page table holds at
\* most one row for a path
C30_OnePageRowPerPath ==
  \A r1 \in page, r2 \in page : r1.page_path = r2.page_path => r1 = r2

====
